---------------------------- MODULE Spec2Model ----------------------------
(***************************************************************************)
(* A model of evilArc3.py: one run of the command-line tool, from parsed   *)
(* arguments (main, line 81) to process exit.                              *)
(*                                                                         *)
(* Strings are sequences of one-character strings, so that the path and    *)
(* extension functions of os.path are computed character by character as   *)
(* the library computes them (POSIX flavour).                              *)
(*                                                                         *)
(* The filesystem is the set of regular files (by absolute path) plus the  *)
(* file at the output name, which is either absent or an archive holding   *)
(* a sequence of entries.  An entry records the arcname and the source     *)
(* path that build_archive passes to zf.write / tf.add.                    *)
(***************************************************************************)
EXTENDS Integers, Sequences, FiniteSets, TLC

VARIABLES
    files,           \* args.files
    path,            \* args.path
    target,          \* args.target
    output,          \* args.output
    exists,          \* regular files present when the process starts
    gone,            \* files removed by the environment during the build
    preFile,         \* the file at the output name when the process starts
    outFile,         \* the file at the output name now
    pc,              \* position of the process
    traversal_path,  \* build_archive's local, after lines 28-29
    ext,             \* build_archive's local, line 31
    wmode,           \* build_archive's local, line 32
    writer,          \* the library writer opened: "zip" (ZipFile) or "tar" (tarfile)
    mode,            \* the mode string handed to ZipFile / tarfile.open
    handle,          \* the output handle of the with-statement
    idx,             \* position of the for-loop over files
    written,         \* entries handed to the writer by this run, in order
    outcome,         \* how the process ended
    printed          \* whether line 91 printed the confirmation

vars == << files, path, target, output, exists, gone, preFile, outFile, pc,
           traversal_path, ext, wmode, writer, writer, mode, handle, idx, written, outcome,
           printed >>

-----------------------------------------------------------------------------
(* Bounds of the model *)

MaxFiles == 2     \* longest input file list
MaxPre == 1       \* most entries in an archive that exists before the run

-----------------------------------------------------------------------------
(* Strings *)

\* the file at the output name: absent, or an archive and its entries
Absent == [there |-> FALSE, entries |-> << >>]
Archive(es) == [there |-> TRUE, entries |-> es]
NoValue == "none"

Cwd == << "/", "w" >>

s_a      == << "a" >>
s_dot_a  == << ".", "/", "a" >>
s_abs_a  == << "/", "w", "/", "a" >>
s_b      == << "b" >>
s_abs_b  == << "/", "w", "/", "b" >>

FileNames == { s_a, s_dot_a, s_abs_a, s_b }

CanonFiles == { s_abs_a, s_abs_b }

TraversalPaths ==
    { << >>,
      << "a", "/", "b" >>,
      << "a", "/", "b", "/" >>,
      << ".", ".", "/", "/" >>,
      << ".", ".", "\\" >> }

OutNames ==
    { << "x", ".", "z", "i", "p" >>,
      << "x", ".", "Z", "I", "P" >>,
      << "x", ".", "j", "a", "r" >>,
      << "x", ".", "t", "a", "r" >>,
      << "x", ".", "g", "z" >>,
      << "x", ".", "T", "g", "z" >>,
      << "x", ".", "b", "z", "2" >>,
      << "x", ".", "t", "a", "r", ".", "g", "z" >>,
      << "x", ".", "r", "a", "r" >>,
      << ".", "z", "i", "p" >> }

OldEntry == [name |-> << "o" >>, src |-> << "o" >>]

RECURSIVE SeqsUpTo(_, _)
SeqsUpTo(S, n) ==
    IF n = 0 THEN { << >> }
    ELSE LET shorter == SeqsUpTo(S, n - 1)
         IN  shorter \cup { Append(q, x) : q \in shorter, x \in S }

-----------------------------------------------------------------------------
(* os.path, POSIX flavour *)

\* str.rfind(c) + 1: the last position of c in p, 0 when there is none
RECURSIVE RFind(_, _)
RFind(p, c) ==
    IF p = << >> THEN 0
    ELSE IF p[Len(p)] = c THEN Len(p)
    ELSE RFind(SubSeq(p, 1, Len(p) - 1), c)

\* os.path.basename: what follows the last "/"
Basename(p) == SubSeq(p, RFind(p, "/") + 1, Len(p))

\* str.split("/")
RECURSIVE Split(_)
Split(p) ==
    IF p = << >> THEN << << >> >>
    ELSE LET r == Split(SubSeq(p, 1, Len(p) - 1))
             c == p[Len(p)]
         IN  IF c = "/" THEN Append(r, << >>)
             ELSE [r EXCEPT ![Len(r)] = Append(@, c)]

DotDot == << ".", "." >>

\* the loop of os.path.normpath over the components
RECURSIVE Collapse(_, _, _)
Collapse(comps, acc, isAbs) ==
    IF comps = << >> THEN acc
    ELSE LET comp == Head(comps)
             next ==
                IF comp \in { << >>, << "." >> } THEN acc
                ELSE IF \/ comp /= DotDot
                        \/ (~isAbs /\ acc = << >>)
                        \/ (acc /= << >> /\ acc[Len(acc)] = DotDot)
                     THEN Append(acc, comp)
                ELSE IF acc /= << >> THEN SubSeq(acc, 1, Len(acc) - 1)
                ELSE acc
         IN  Collapse(Tail(comps), next, isAbs)

\* "/".join(comps)
RECURSIVE Join(_)
Join(comps) ==
    IF comps = << >> THEN << >>
    ELSE IF Len(comps) = 1 THEN comps[1]
    ELSE comps[1] \o << "/" >> \o Join(Tail(comps))

StartsWith(p, q) == Len(p) >= Len(q) /\ SubSeq(p, 1, Len(q)) = q

\* os.path.normpath
Normpath(p) ==
    LET slashes ==
            IF ~StartsWith(p, << "/" >>) THEN << >>
            ELSE IF StartsWith(p, << "/", "/" >>)
                    /\ ~StartsWith(p, << "/", "/", "/" >>)
                 THEN << "/", "/" >>
            ELSE << "/" >>
        r == slashes \o Join(Collapse(Split(p), << >>, slashes /= << >>))
    IN  IF r = << >> THEN << "." >> ELSE r

\* os.path.abspath, with the process's working directory Cwd
Abspath(p) ==
    IF StartsWith(p, << "/" >>) THEN Normpath(p)
    ELSE Normpath(Cwd \o << "/" >> \o p)

\* os.path.splitext(p)[1]: from the last dot of the last component, unless
\* only dots precede it there
Splitext1(p) ==
    LET sepIndex == RFind(p, "/")
        dotIndex == RFind(p, ".")
    IN  IF dotIndex > sepIndex
           /\ \E k \in (sepIndex + 1) .. (dotIndex - 1) : p[k] /= "."
        THEN SubSeq(p, dotIndex, Len(p))
        ELSE << >>

LowerMap ==
    ("Z" :> "z") @@ ("I" :> "i") @@ ("P" :> "p") @@ ("T" :> "t") @@
    ("G" :> "g") @@ ("A" :> "a") @@ ("R" :> "r") @@ ("J" :> "j") @@
    ("B" :> "b")

\* str.lower
Lower(s) ==
    [k \in 1 .. Len(s) |-> IF s[k] \in DOMAIN LowerMap THEN LowerMap[s[k]] ELSE s[k]]

\* os.path.isfile at process start, and while the build runs
IsFile(f) == Abspath(f) \in exists
Readable(f) == Abspath(f) \in (exists \ gone)

-----------------------------------------------------------------------------
(* build_archive *)

EndsWithSep(tp) == tp /= << >> /\ tp[Len(tp)] \in { "/", "\\" }

\* faulty variant of NormalizeTraversal: appends "/" to every non-empty path
NormalizeTraversal_always(tp) ==
    IF tp /= << >> THEN Append(tp, "/") ELSE tp

\* lines 28-29: append "/" unless the path is empty or ends with / or \
NormalizeTraversal(tp) ==
    IF tp /= << >> /\ ~EndsWithSep(tp) THEN Append(tp, "/") ELSE tp

\* faulty variant of WMode: never appends
WMode_w == "w"

\* line 32
WMode == IF outFile.there THEN "a" ELSE "w"

\* faulty variant of internal_name: a non-target keeps its directories
internal_name_full(fname) ==
    IF Abspath(fname) = Abspath(target)
    THEN traversal_path \o Basename(fname)
    ELSE fname

\* lines 34-38, a closure over traversal_path and target
internal_name(fname) ==
    IF Abspath(fname) = Abspath(target)
    THEN traversal_path \o Basename(fname)
    ELSE Basename(fname)

ZipExts == { << ".", "z", "i", "p" >>, << ".", "j", "a", "r" >> }
TarExt == << ".", "t", "a", "r" >>
GzExts == { << ".", "g", "z" >>, << ".", "t", "g", "z" >> }
Bz2Ext == << ".", "b", "z", "2" >>

\* faulty variant of Branch: an unknown extension falls back to zip
Branch_default(e) ==
    IF e \in { TarExt, Bz2Ext } \cup GzExts THEN "tar" ELSE "zip"

\* lines 41, 46, 56: the branch taken for an extension
Branch(e) ==
    IF e \in ZipExts THEN "zip"
    ELSE IF e \in { TarExt, Bz2Ext } \cup GzExts THEN "tar"
    ELSE "unsupported"

\* lines 42 and 47-52: the mode the archive is opened with
OpenMode(e, wm) ==
    IF e \in ZipExts THEN wm
    ELSE IF e = TarExt THEN wm
    ELSE IF e \in GzExts THEN "w:gz"
    ELSE "w:bz2"

\* faulty variant of ExtOf: the extension keeps its letter case
ExtOf_cased(out_name) == Splitext1(out_name)

\* line 31
ExtOf(out_name) == Lower(Splitext1(out_name))

-----------------------------------------------------------------------------
(* main *)

\* faulty variant of FilesOk: only the first file is checked
FilesOk_first == IsFile(files[1])

\* lines 84-86
FilesOk == \A k \in 1 .. Len(files) : IsFile(files[k])

\* faulty variant of TargetInFiles: the check is missing
TargetInFiles_skip == TRUE

\* line 87: list membership, by string equality
TargetInFiles == \E k \in 1 .. Len(files) : files[k] = target

-----------------------------------------------------------------------------
(* The process *)

Init ==
    /\ files \in SeqsUpTo(FileNames, MaxFiles) \ { << >> }
    /\ path \in TraversalPaths
    /\ target \in FileNames
    /\ output \in OutNames
    /\ exists \in (SUBSET CanonFiles) \ { { } }
    /\ gone = { }
    /\ preFile \in { Absent } \cup { Archive(es) : es \in SeqsUpTo({ OldEntry }, MaxPre) }
    /\ outFile = preFile
    /\ pc = "main"
    /\ traversal_path = << >>
    /\ ext = << >>
    /\ wmode = NoValue
    /\ writer = NoValue
    /\ mode = NoValue
    /\ handle = "Uninitialized"
    /\ idx = 0
    /\ written = << >>
    /\ outcome = NoValue
    /\ printed = FALSE

Args == << files, path, target, output, exists, preFile >>
Locals == << traversal_path, ext, wmode >>

\* lines 84-86
CheckFiles ==
    /\ pc = "main"
    /\ IF FilesOk
       THEN pc' = "checkTarget" /\ outcome' = outcome
       ELSE pc' = "exit" /\ outcome' = "FileNotFound"
    /\ UNCHANGED << Args, Locals, gone, outFile, writer, mode, handle, idx, written, printed >>

\* lines 87-88
CheckTarget ==
    /\ pc = "checkTarget"
    /\ IF TargetInFiles
       THEN pc' = "build" /\ outcome' = outcome
       ELSE pc' = "exit" /\ outcome' = "TargetNotInList"
    /\ UNCHANGED << Args, Locals, gone, outFile, writer, mode, handle, idx, written, printed >>

\* line 90 and lines 27-32
EnterBuild ==
    /\ pc = "build"
    /\ traversal_path' = NormalizeTraversal(path)
    /\ ext' = ExtOf(output)
    /\ wmode' = WMode
    /\ pc' = "dispatch"
    /\ UNCHANGED << Args, gone, outFile, writer, mode, handle, idx, written, outcome, printed >>

\* faulty variant of OpenArchive: the loop starts at the second file
OpenArchive_skipfirst ==
    /\ pc = "dispatch"
    /\ Branch(ext) /= "unsupported"
    /\ writer' = Branch(ext)
    /\ mode' = OpenMode(ext, wmode)
    /\ handle' = "Open"
    /\ outFile' = IF mode' = "a" THEN outFile ELSE Archive(<< >>)
    /\ idx' = 2
    /\ pc' = "loop"
    /\ UNCHANGED << Args, Locals, gone, written, outcome, printed >>

\* lines 41-42 and 46-53: open the archive; a "w" mode truncates, "a" keeps
OpenArchive ==
    /\ pc = "dispatch"
    /\ Branch(ext) /= "unsupported"
    /\ writer' = Branch(ext)
    /\ mode' = OpenMode(ext, wmode)
    /\ handle' = "Open"
    /\ outFile' = IF mode' = "a" THEN outFile ELSE Archive(<< >>)
    /\ idx' = 1
    /\ pc' = "loop"
    /\ UNCHANGED << Args, Locals, gone, written, outcome, printed >>

\* lines 56-57
Unsupported ==
    /\ pc = "dispatch"
    /\ Branch(ext) = "unsupported"
    /\ outcome' = "Unsupported"
    /\ pc' = "exit"
    /\ UNCHANGED << Args, Locals, gone, outFile, writer, mode, handle, idx, written, printed >>

\* lines 43-44 and 54-55: one iteration that succeeds
WriteEntry ==
    /\ pc = "loop"
    /\ idx <= Len(files)
    /\ Readable(files[idx])
    /\ LET e == [name |-> internal_name(files[idx]), src |-> files[idx]]
       IN  /\ written' = Append(written, e)
           /\ outFile' = Archive(Append(outFile.entries, e))
    /\ idx' = idx + 1
    /\ UNCHANGED << Args, Locals, gone, pc, writer, mode, handle, outcome, printed >>

\* faulty variant of WriteFail: the archive is opened without a with-block,
\* so the exception leaves the handle open
WriteFail_leak ==
    /\ pc = "loop"
    /\ idx <= Len(files)
    /\ ~Readable(files[idx])
    /\ outcome' = "IOError"
    /\ pc' = "exit"
    /\ UNCHANGED << Args, Locals, gone, outFile, writer, mode, handle, idx, written, printed >>

\* lines 43-44 and 54-55: the source cannot be read; the exception leaves
\* the with-block, which closes the archive, and ends the process
WriteFail ==
    /\ pc = "loop"
    /\ idx <= Len(files)
    /\ ~Readable(files[idx])
    /\ handle' = "Closed"
    /\ outcome' = "IOError"
    /\ pc' = "exit"
    /\ UNCHANGED << Args, Locals, gone, outFile, writer, mode, idx, written, printed >>

\* lines 42 and 53: the with-block ends after the last file
CloseArchive ==
    /\ pc = "loop"
    /\ idx > Len(files)
    /\ handle' = "Closed"
    /\ pc' = "print"
    /\ UNCHANGED << Args, Locals, gone, outFile, writer, mode, idx, written, outcome, printed >>

\* line 91
PrintCreated ==
    /\ pc = "print"
    /\ printed' = TRUE
    /\ outcome' = "ok"
    /\ pc' = "exit"
    /\ UNCHANGED << Args, Locals, gone, outFile, writer, mode, handle, idx, written >>

\* the environment: a source file disappears after validation, before the
\* loop reads it (a file that disappears before the archive is opened is
\* found missing by the same iteration)
FileVanishes ==
    /\ pc = "loop"
    /\ idx <= Len(files)
    /\ \E c \in exists \ gone : gone' = gone \cup { c }
    /\ UNCHANGED << Args, Locals, outFile, pc, writer, mode, handle, idx, written, outcome, printed >>

Step ==
    \/ CheckFiles
    \/ CheckTarget
    \/ EnterBuild
    \/ OpenArchive
    \/ Unsupported
    \/ WriteEntry
    \/ WriteFail
    \/ CloseArchive
    \/ PrintCreated

Next == Step \/ FileVanishes

Spec == Init /\ [][Next]_vars

\* the runs followed to their end: fewer spellings and output names
InitLife ==
    /\ Init
    /\ \A k \in 1 .. Len(files) : files[k] \in { s_a, s_b }
    /\ target = s_a
    /\ path = << "a", "/", "b" >>
    /\ output \in { << "x", ".", "z", "i", "p" >>,
                    << "x", ".", "g", "z" >>,
                    << "x", ".", "r", "a", "r" >> }
    /\ s_abs_a \in exists

\* the interpreter always runs the next statement
FairSpec == InitLife /\ [][Next]_vars /\ WF_vars(Step)

-----------------------------------------------------------------------------
(* Vocabulary of the properties *)

\* every input file was a regular file when the process started
AllRegular == \A k \in 1 .. Len(files) : Abspath(files[k]) \in exists

\* the target, as spelled, is an element of the file list
TargetListed == target \in { files[k] : k \in 1 .. Len(files) }

\* two paths name the same file
SameFile(f, g) == Abspath(f) = Abspath(g)

\* normalize: one separator appended to a non-empty path that lacks one
ClaimNormalize(tp) ==
    IF tp = << >> THEN tp
    ELSE IF tp[Len(tp)] = "/" \/ tp[Len(tp)] = "\\" THEN tp
    ELSE tp \o << "/" >>

\* the internal name the properties expect for an input file
ClaimName(f) ==
    IF SameFile(f, target) THEN ClaimNormalize(path) \o Basename(f)
    ELSE Basename(f)

\* the final extension of a name: from the last dot of its last component,
\* provided something other than dots comes before that dot
FinalExt(o) ==
    LET b == Basename(o)
        dots == { d \in 1 .. Len(b) :
                    /\ b[d] = "."
                    /\ \A j \in (d + 1) .. Len(b) : b[j] /= "."
                    /\ \E j \in 1 .. (d - 1) : b[j] /= "." }
    IN  IF dots = { } THEN << >>
        ELSE LET d == CHOOSE d \in dots : TRUE IN SubSeq(b, d, Len(b))

\* the writer the extension table assigns to an output name
ClaimedWriter(o) ==
    LET e == Lower(FinalExt(o))
    IN  CASE e = << ".", "z", "i", "p" >> -> "zip"
          [] e = << ".", "j", "a", "r" >> -> "zip"
          [] e = << ".", "t", "a", "r" >> -> "tar"
          [] e = << ".", "g", "z" >> -> "tar:gz"
          [] e = << ".", "t", "g", "z" >> -> "tar:gz"
          [] e = << ".", "b", "z", "2" >> -> "tar:bz2"
          [] OTHER -> "unsupported"

\* the writer the process opened
WriterInUse ==
    IF writer = "zip" THEN "zip"
    ELSE IF mode \in { "a", "w" } THEN "tar"
    ELSE IF mode = "w:gz" THEN "tar:gz"
    ELSE "tar:bz2"

\* build_archive has returned
BuildSucceeded == pc = "print" \/ outcome = "ok"

\* lines 27-32 of build_archive have run
Entered ==
    \/ pc \in { "dispatch", "loop", "print" }
    \/ outcome \in { "Unsupported", "IOError", "ok" }

\* entry k of this run carries the traversal prefix / is a bare base name
Carries(k) ==
    /\ ClaimNormalize(path) /= << >>
    /\ written[k].name = ClaimNormalize(path) \o Basename(files[k])
Plain(k) == written[k].name = Basename(files[k])

TargetEntries == { k \in 1 .. Len(files) : SameFile(files[k], target) }

RECURSIVE TrailingSeps(_)
TrailingSeps(q) ==
    IF q = << >> THEN 0
    ELSE IF q[Len(q)] \in { "/", "\\" }
         THEN 1 + TrailingSeps(SubSeq(q, 1, Len(q) - 1))
    ELSE 0

s_ab == << "a", "/", "b" >>
s_ab_sep == << "a", "/", "b", "/" >>

-----------------------------------------------------------------------------
(* C1: the internal name handed to the writer for the k-th file is          *)
(* normalize(traversal path) + basename when the file is the target and the *)
(* bare basename otherwise; an empty traversal path gives the target its    *)
(* bare base name; "a/b" and "a/b/" give the same names.                    *)
C1_InternalNames ==
    /\ \A k \in 1 .. Len(written) :
          /\ written[k].src = files[k]
          /\ written[k].name = ClaimName(files[k])
          /\ (path = << >> => written[k].name = Basename(files[k]))
          /\ (path \in { s_ab, s_ab_sep } =>
                written[k].name =
                    IF SameFile(files[k], target)
                    THEN s_ab_sep \o Basename(files[k])
                    ELSE Basename(files[k]))

C1_Witness ==
    /\ outcome = "ok"
    /\ path = s_ab
    /\ Len(written) = 2
    /\ files[1] = s_dot_a /\ target = s_dot_a /\ files[2] = s_b
    /\ written[1].name = << "a", "/", "b", "/", "a" >>
    /\ written[2].name = << "b" >>

(* C2 as stated, for a non-empty traversal path: in every successful build  *)
(* exactly one entry carries the traversal prefix and every other entry is  *)
(* a plain base name.                                                       *)
C2_Original ==
    BuildSucceeded /\ path /= << >> =>
        \E k \in 1 .. Len(written) :
            /\ Carries(k)
            /\ \A j \in (1 .. Len(written)) \ { k } : Plain(j) /\ ~Carries(j)

(* C2, amended: in every successful build with a non-empty traversal path   *)
(* the entries that carry the prefix are exactly the entries whose file has *)
(* the target's absolute path, there is at least one, and there is exactly  *)
(* one when the target file is listed once; every other entry is a plain    *)
(* base name.  With an empty traversal path every entry is a plain base     *)
(* name.                                                                    *)
C2_Amended ==
    BuildSucceeded =>
        /\ Len(written) = Len(files)
        /\ TargetEntries /= { }
        /\ \A k \in 1 .. Len(written) :
              /\ (k \in TargetEntries /\ path /= << >> => Carries(k))
              /\ (k \notin TargetEntries \/ path = << >> => Plain(k) /\ ~Carries(k))
        /\ (path /= << >> /\ Cardinality(TargetEntries) = 1 =>
              Cardinality({ k \in 1 .. Len(written) : Carries(k) }) = 1)

C2_Witness ==
    /\ BuildSucceeded
    /\ Len(files) = 2
    /\ files[1] = s_a /\ files[2] = s_dot_a /\ target = s_a
    /\ Carries(1) /\ Carries(2)

(* C3 as stated: after a successful build the archive holds exactly         *)
(* len(files) entries, one per input file, in input order, whatever was at  *)
(* the output name before.                                                  *)
C3_Original ==
    BuildSucceeded =>
        /\ outFile.there
        /\ Len(outFile.entries) = Len(files)
        /\ \A k \in 1 .. Len(files) : outFile.entries[k].src = files[k]

(* C3, amended: a successful build adds exactly len(files) entries, one per *)
(* input file, in input order, at the end of the archive; the archive holds *)
(* exactly these entries when no file existed at the output name or the     *)
(* writer is a compressed tar writer, and otherwise holds the entries of    *)
(* the existing archive before them.                                        *)
C3_Amended ==
    BuildSucceeded =>
        LET appends == preFile.there /\ ClaimedWriter(output) \in { "zip", "tar" }
            kept == IF appends THEN Len(preFile.entries) ELSE 0
        IN  /\ outFile.there
            /\ Len(outFile.entries) = kept + Len(files)
            /\ \A k \in 1 .. Len(files) : outFile.entries[kept + k].src = files[k]
            /\ (~appends => Len(outFile.entries) = Len(files))

C3_Witness ==
    /\ BuildSucceeded
    /\ preFile.there /\ preFile.entries /= << >>
    /\ mode = "a"
    /\ Len(files) = 2
    /\ Len(outFile.entries) = Len(preFile.entries) + 2

(* C4: whenever every input file is a regular file and --target is some     *)
(* spelling of a file of the list, the run is accepted and, when the build  *)
(* succeeds, that file's entries carry the traversal prefix.                *)
C4_PathIdentity ==
    AllRegular /\ TargetEntries /= { } =>
        /\ outcome /= "TargetNotInList"
        /\ (BuildSucceeded =>
              \A k \in TargetEntries :
                  written[k].name = ClaimNormalize(path) \o Basename(files[k]))

(* C5: the writer opened is the one the table assigns to the lower-cased    *)
(* final extension of the output name (.zip/.jar zip, .tar tar, .gz/.tgz    *)
(* gzip tar, .bz2 bzip2 tar), an unsupported-format exit happens only for   *)
(* an extension outside the table, and every output name whose final        *)
(* extension differs from this one's only in letter case is dispatched to   *)
(* the same branch and mode.                                                *)
C5_WriterByExtension ==
    /\ (handle /= "Uninitialized" =>
          /\ ClaimedWriter(output) /= "unsupported"
          /\ WriterInUse = ClaimedWriter(output))
    /\ (outcome = "Unsupported" => ClaimedWriter(output) = "unsupported")
    /\ (pc = "dispatch" =>
          /\ (Branch(ext) = "unsupported") = (ClaimedWriter(output) = "unsupported")
          /\ \A o \in OutNames :
                Lower(FinalExt(o)) = Lower(FinalExt(output)) =>
                    /\ Branch(ExtOf(o)) = Branch(ext)
                    /\ (Branch(ext) /= "unsupported" =>
                          OpenMode(ExtOf(o), wmode) = OpenMode(ext, wmode)))

C5_Witness ==
    /\ output = << "x", ".", "Z", "I", "P" >>
    /\ handle = "Open"
    /\ writer = "zip"
    /\ path = s_ab /\ Len(files) = 2

(* C6: when the output name's extension is not a recognized one, no file is *)
(* ever opened, created or modified, no entry is written, the confirmation  *)
(* is not printed, the run never succeeds, and a run that passed the input  *)
(* checks ends with the unsupported-format error.                           *)
C6_Unsupported ==
    ClaimedWriter(output) = "unsupported" =>
        /\ handle = "Uninitialized"
        /\ writer = NoValue /\ mode = NoValue
        /\ outFile = preFile
        /\ written = << >>
        /\ ~printed
        /\ outcome \in { NoValue, "FileNotFound", "TargetNotInList", "Unsupported" }
        /\ (pc = "exit" /\ AllRegular /\ TargetListed => outcome = "Unsupported")
        /\ pc \in { "main", "checkTarget", "build", "dispatch", "exit" }

C6_Witness ==
    /\ output = << "x", ".", "r", "a", "r" >>
    /\ pc = "exit"
    /\ outcome = "Unsupported"
    /\ preFile.there /\ outFile = preFile
    /\ ~printed

(* C7: when an input file is missing or not a regular file, or the target   *)
(* is not in the file list, the run ends with a validation error:           *)
(* build_archive is never entered, nothing is opened, and the file at the   *)
(* output name stays absent or unchanged.                                   *)
C7_ValidationFirst ==
    ~AllRegular \/ ~TargetListed =>
        /\ pc \in { "main", "checkTarget", "exit" }
        /\ ~Entered
        /\ traversal_path = << >> /\ wmode = NoValue
        /\ handle = "Uninitialized"
        /\ outFile = preFile
        /\ written = << >>
        /\ ~printed
        /\ (pc = "exit" =>
              outcome = IF ~AllRegular THEN "FileNotFound" ELSE "TargetNotInList")

C7_Witness ==
    /\ pc = "exit"
    /\ outcome = "FileNotFound"
    /\ TargetListed
    /\ Len(files) = 2 /\ IsFile(files[1]) /\ ~IsFile(files[2])
    /\ preFile.there /\ preFile.entries /= << >> /\ outFile = preFile

(* C8: once the output is opened: with a file already at the output name    *)
(* the zip/jar and plain tar writers open it in append mode and it holds    *)
(* the entries it had, in order, followed by this run's entries; the gzip   *)
(* and bzip2 tar writers create it fresh and it holds this run's entries    *)
(* only; with no file at the output name every writer creates it fresh.     *)
C8_AppendOrFresh ==
    handle /= "Uninitialized" =>
        LET w == ClaimedWriter(output)
        IN  /\ (preFile.there /\ w \in { "zip", "tar" } =>
                  /\ mode = "a"
                  /\ outFile = Archive(preFile.entries \o written))
            /\ (preFile.there /\ w = "tar:gz" =>
                  mode = "w:gz" /\ outFile = Archive(written))
            /\ (preFile.there /\ w = "tar:bz2" =>
                  mode = "w:bz2" /\ outFile = Archive(written))
            /\ (~preFile.there =>
                  /\ mode = (IF w = "tar:gz" THEN "w:gz"
                             ELSE IF w = "tar:bz2" THEN "w:bz2" ELSE "w")
                  /\ outFile = Archive(written))

C8_Witness ==
    /\ outcome = "ok"
    /\ preFile.there /\ preFile.entries /= << >>
    /\ mode = "w:gz"
    /\ Len(files) = 2
    /\ outFile = Archive(written)
    /\ Len(written) = 2

(* C9 as stated: for every non-empty traversal path the prefix used by      *)
(* build_archive ends with exactly one separator.                           *)
C9_Original ==
    Entered /\ path /= << >> => TrailingSeps(traversal_path) = 1

(* C9, amended: for every non-empty traversal path the prefix ends with at  *)
(* least one separator; one "/" is appended only when the supplied path     *)
(* ends with none, and a path that already ends with a separator is used    *)
(* unchanged, so the prefix ends with exactly one separator unless the      *)
(* supplied path itself ends with two or more.                              *)
C9_Amended ==
    Entered /\ path /= << >> =>
        /\ TrailingSeps(traversal_path) >= 1
        /\ (TrailingSeps(path) = 0 => traversal_path = path \o << "/" >>)
        /\ (TrailingSeps(path) >= 1 => traversal_path = path)
        /\ (TrailingSeps(path) <= 1 => TrailingSeps(traversal_path) = 1)
        /\ \A k \in 1 .. Len(written) :
              SameFile(files[k], target) =>
                  written[k].name = traversal_path \o Basename(files[k])

C9_Witness ==
    /\ outcome = "ok"
    /\ path = << "a", "/", "b", "/" >>
    /\ traversal_path = path
    /\ \E k \in 1 .. Len(written) :
          written[k].name = << "a", "/", "b", "/", "a" >>

(* C10: the output handle goes Uninitialized -> Open -> Closed and never    *)
(* back; once open it is eventually closed, whether every entry is written  *)
(* or a source file cannot be read; the failing step closes it, writes      *)
(* nothing and leaves on disk the entries written so far; after the close   *)
(* nothing more is written.                                                 *)
C10_HandleLifecycle ==
    /\ (handle = "Open") ~> (handle = "Closed")
    /\ [][ /\ (handle = "Uninitialized" => handle' \in { "Uninitialized", "Open" })
           /\ (handle = "Open" => handle' \in { "Open", "Closed" })
           /\ (handle = "Closed" =>
                 handle' = "Closed" /\ written' = written /\ outFile' = outFile)
           /\ (outcome /= "IOError" /\ outcome' = "IOError" =>
                 /\ handle = "Open" /\ handle' = "Closed"
                 /\ written' = written /\ outFile' = outFile
                 /\ Len(written) = idx - 1
                 /\ outFile'.there
                 /\ Len(outFile'.entries) >= Len(written)
                 /\ SubSeq(outFile'.entries,
                           Len(outFile'.entries) - Len(written) + 1,
                           Len(outFile'.entries)) = written)
           /\ (outcome = "IOError" => outcome' = "IOError" /\ pc' = "exit")
         ]_vars

C10_Witness ==
    /\ outcome = "IOError"
    /\ handle = "Closed"
    /\ Len(files) = 2
    /\ Len(written) = 1
    /\ ~preFile.there
    /\ outFile = Archive(written)

=============================================================================
